---- MODULE Spec2Model ----
(***************************************************************************)
(* multifan: a closed-loop fan speed controller (src/main.cpp).            *)
(*                                                                         *)
(* The model follows main(): the initial reset pass, the polling loop      *)
(* (source updates, fan updates, nanosleep), the catch block and the final *)
(* reset pass, with the signal handler as the only asynchronous step.      *)
(* The files behind the sources and the actuators are the environment:     *)
(* what a read yields and whether a stream opens and accepts a value is    *)
(* chosen anew at every operation, so the environment may change between   *)
(* any two steps of the program.                                           *)
(*                                                                         *)
(* A stream insertion (f << v) is taken at the level the code tests it:    *)
(* the expression !(f << v) is false or true, and an insertion that the    *)
(* code sees succeed reaches the file. set_pwm does not test is_open(), so *)
(* a pwm file that cannot be opened is an insertion that fails. An error   *)
(* that a buffered stream meets only when its destructor flushes it is not *)
(* visible to the code and is not part of env.                             *)
(***************************************************************************)
EXTENDS Integers, Sequences, FiniteSets, TLC

\* ---------------------------------------------------------------- topology

\* Number of fans handed to reset_fans and main_loop. main() builds one fan;
\* reset_fans and main_loop take a span of any length.
NumFans == 2

\* std::array<source *, 2> sources
NumSources == 2

Fans == 1..NumFans
Sources == 1..NumSources

\* fan(..., 60, 240, max_element)
PwmMin == 60
PwmMax == 240

\* reset() commands set_pwm(255)
FullSpeed == 255

\* set_pwm takes a uint8_t
Uint8Mod == 256

\* The contents the sensor files are observed to hold (millidegrees).
Readings == {40000, 70000}

\* std::optional<int32_t>: with a value, and std::nullopt
Some(v) == [has |-> TRUE, val |-> v]
NoValue == [has |-> FALSE, val |-> 0]

\* The duty of an actuator that nothing has been written to yet.
NoDuty == [has |-> FALSE, val |-> 0]

\* int32_t
IntMax == 2147483647
IntMin == -IntMax - 1

\* std::array<char, 32> buf
BufSize == 32

\* ------------------------------------------------------------ sensor files

DigitChars == <<"0", "1", "2", "3", "4", "5", "6", "7", "8", "9">>
IsDigit(c) == \E i \in 1..Len(DigitChars) : DigitChars[i] = c
DigitVal(c) == (CHOOSE i \in 1..Len(DigitChars) : DigitChars[i] = c) - 1

\* The decimal text of an integer, as the kernel prints a reading.
RECURSIVE Decimal(_)
Decimal(n) ==
    IF n < 0 THEN <<"-">> \o Decimal(-n)
    ELSE IF n < 10 THEN <<DigitChars[n + 1]>>
    ELSE Decimal(n \div 10) \o <<DigitChars[(n % 10) + 1]>>

\* A sensor file: whether it can be opened, and the characters it holds.
File(readable, text) == [readable |-> readable, text |-> text]
NoFile == File(FALSE, <<>>)

\* The states the sensor files are observed in: a reading and a newline, and
\* the failures: unreadable, empty, a sign alone, text before or after the
\* number, a leading blank, a number beyond int32.
FileStates ==
    {File(TRUE, Decimal(r) \o <<"\n">>) : r \in Readings}
    \cup {NoFile,
          File(TRUE, <<>>),
          File(TRUE, <<"-">>),
          File(TRUE, <<"x", "7", "0">>),
          File(TRUE, <<" ", "7", "0">>),
          File(TRUE, <<"9", "9", "9", "9", "9", "9", "9", "9", "9", "9", "9">>)}

\* The number of digits at the head of a text.
RECURSIVE DigitRun(_)
DigitRun(t) ==
    IF t = <<>> \/ ~IsDigit(Head(t)) THEN 0 ELSE 1 + DigitRun(Tail(t))

\* The digits of t taken into acc, which holds minus the magnitude read so
\* far; out of range as soon as the magnitude leaves int32.
RECURSIVE Accumulate(_, _)
Accumulate(acc, t) ==
    IF t = <<>> THEN [ok |-> TRUE, neg |-> acc]
    ELSE LET dgt == DigitVal(Head(t))
         IN IF acc < (IntMin + dgt + 9) \div 10
            THEN [ok |-> FALSE, neg |-> 0]
            ELSE Accumulate(acc * 10 - dgt, Tail(t))

\* std::from_chars(first, last, int32_t &): an optional minus sign and the
\* digits that follow; ec is invalid_argument without a digit and
\* result_out_of_range beyond int32.
from_chars(t) ==
    LET minus == t # <<>> /\ Head(t) = "-"
        rest == IF minus THEN Tail(t) ELSE t
        n == DigitRun(rest)
        a == Accumulate(0, SubSeq(rest, 1, n))
    IN IF n = 0 THEN [ec |-> "invalid_argument", val |-> 0]
       ELSE IF ~a.ok \/ (~minus /\ a.neg = IntMin)
            THEN [ec |-> "result_out_of_range", val |-> 0]
            ELSE [ec |-> "ok", val |-> IF minus THEN a.neg ELSE -a.neg]

\* file_source::get: gcount() characters of the file, at most the buffer, are
\* parsed; a file that cannot be opened yields none. The reading, or a throw.
file_source_get(file) ==
    LET gcount == IF file.readable
                  THEN (IF Len(file.text) < BufSize THEN Len(file.text) ELSE BufSize)
                  ELSE 0
        r == from_chars(SubSeq(file.text, 1, gcount))
    IN IF r.ec = "ok" THEN [threw |-> FALSE, val |-> r.val]
       ELSE [threw |-> TRUE, val |-> 0]

\* Mutant of source_update: a failed read keeps the value of the read before.
source_update_keep(old, file) ==
    LET g == file_source_get(file)
    IN IF g.threw THEN old ELSE Some(g.val)

\* source::update: last_value_ = get(), reset when get() throws
source_update(old, file) ==
    LET g == file_source_get(file)
    IN IF g.threw THEN NoValue ELSE Some(g.val)

\* add_driver(cpu_source, 60000, 80000); add_driver(hdd_source, 42000, 50000)
cpu_driver == [src |-> 1, min |-> 60000, max |-> 80000]
hdd_driver == [src |-> 2, min |-> 42000, max |-> 50000]

\* drivers_ of each fan, in attachment order. Fan 1 is the fan of main();
\* every further fan is driven by one of the two sources.
drivers_(f) ==
    IF f = 1 THEN <<cpu_driver, hdd_driver>>
    ELSE IF f % 2 = 0 THEN <<hdd_driver>> ELSE <<cpu_driver>>

\* ------------------------------------------------------------- environment

\* What opening <pwm>_enable and writing "1" to it does.
EnableStates == {"absent", "ok", "wfail"}

\* enable: <pwm>_enable cannot be opened (absent), opens and takes the "1"
\* (ok), or opens and f << "1" fails (wfail); pwm: whether f << value succeeds
\* on the pwm file.
EnvStates == [enable : EnableStates, pwm : BOOLEAN]

\* No environment on record.
NoEnv == [enable |-> "n/a", pwm |-> FALSE]

VARIABLES
    pc,               \* position of main(): reset1, loop, sources, fans, sleep, reset2, done
    idx,              \* index of the element a pass is at
    rv,               \* int rv of main()
    term,             \* how the process ended: running, returned, aborted
    g_signal_caught,  \* std::atomic_bool g_signal_caught
    last_value,       \* source::last_value_ of every source
    pwm_file,         \* the duty last written to every fan's pwm file
    pwm_enable,       \* whether "1" has been written to <pwm>_enable
    last_ev,          \* the operation the last program step performed
    end_reason,       \* why control left the try block
    sig_at,           \* where main() was when the first signal arrived
    full_wait_after_signal, \* a nanosleep ran to its timeout with the flag set
    exit_attempted,   \* fans whose reset() was called by the final pass
    init_done,        \* fans whose reset() succeeded in the initial pass
    reset_env,        \* the environment of the fan's last operation, if that was a successful reset()
    ever_updated,     \* a source::update or fan::update has been called
    iter_read,        \* what get() gave for every source in the current iteration
    unit              \* the fan under test of the unit specifications

vars == <<pc, idx, rv, term, g_signal_caught, last_value, pwm_file, pwm_enable,
          last_ev, end_reason, sig_at, full_wait_after_signal, exit_attempted,
          init_done, reset_env, ever_updated, iter_read, unit>>

prog == <<pc, idx, rv, term>>
ghost == <<last_ev, end_reason, sig_at, full_wait_after_signal, exit_attempted,
           init_done, reset_env, ever_updated, iter_read>>

\* ------------------------------------------------------------------ events

\* op: the operation; id: the fan or source it was called on; env: the
\* environment it met; attempted: whether it wrote to the pwm file; err: whether
\* it threw; consecutive: whether the fan's previous operation was a successful
\* reset() in the same environment.
\* file: the sensor file a source::update read.
Event(op, id, e, attempted, err, consecutive) ==
    [op |-> op, id |-> id, env |-> e, attempted |-> attempted,
     err |-> err, consecutive |-> consecutive, file |-> NoFile]

SourceEvent(id, file) ==
    [Event("source_update", id, NoEnv, FALSE, FALSE, FALSE) EXCEPT !.file = file]

NoEvent == Event("none", 0, NoEnv, FALSE, FALSE, FALSE)

\* ------------------------------------------------------------------ driver

\* A coefficient is the double static_cast<double>(num) / den, held as the
\* pair of the two integers; 0/0 is a NaN.
Zero == [num |-> 0, den |-> 1]
One == [num |-> 1, den |-> 1]

\* Whether a - b leaves int32: signed overflow, which is undefined.
SubOverflows(a, b) ==
    \/ b > 0 /\ a < IntMin + b
    \/ b < 0 /\ a > IntMax + b

\* a - b in int32_t as a two's complement build computes it: the difference,
\* wrapped by 2^32 when it overflows.
Sub32(a, b) ==
    IF b > 0 /\ a < IntMin + b THEN ((a - IntMin) + (IntMax - b)) + 1
    ELSE IF b < 0 /\ a > IntMax + b THEN ((a - IntMax) + (IntMin - b)) - 1
    ELSE a - b

\* fan::driver::get_coeff for a source that holds a value
get_coeff(d, value) ==
    IF value < d.min THEN Zero
    ELSE IF value > d.max THEN One
    ELSE [num |-> Sub32(value, d.min), den |-> Sub32(d.max, d.min)]

\* Whether get_coeff(d, value) evaluates an int32 subtraction that overflows.
CoeffOverflows(d, value) ==
    /\ ~(value < d.min) /\ ~(value > d.max)
    /\ SubOverflows(value, d.min) \/ SubOverflows(d.max, d.min)

\* A coefficient that is a double in [0, 1].
Proper(c) == c.den > 0 /\ 0 <= c.num /\ c.num <= c.den

Less(a, b) == a.num * b.den < b.num * a.den

\* [](auto vals) { return *std::max_element(vals.begin(), vals.end()); }
RECURSIVE max_element(_)
max_element(vals) ==
    IF Len(vals) = 1 THEN vals[1]
    ELSE LET m == max_element(Tail(vals))
         IN IF Less(vals[1], m) THEN m ELSE vals[1]

\* ------------------------------------------------------------------ fan

\* The index of the first of the drivers ds whose source has no value, 0 when
\* all have one.
first_missing_of(ds, lv) ==
    LET miss == {i \in 1..Len(ds) : ~lv[ds[i].src].has}
    IN IF miss = {} THEN 0 ELSE CHOOSE i \in miss : \A j \in miss : i <= j

first_missing(f, lv) == first_missing_of(drivers_(f), lv)

\* values after the loop over drivers_: one get_coeff per driver, in order
coefficients(ds, lv) == [i \in 1..Len(ds) |-> get_coeff(ds[i], lv[ds[i].src].val)]

RECURSIVE Pow2(_)
Pow2(n) == IF n = 0 THEN 1 ELSE 2 * Pow2(n - 1)

\* The least j >= 1 with a * 2^j >= b, for 0 < a < b: a/b is in [2^-j, 2^(1-j)).
RECURSIVE BinadeOf(_, _, _)
BinadeOf(a, b, j) == IF a * Pow2(j) >= b THEN j ELSE BinadeOf(a, b, j + 1)

\* x * 2^n modulo m
RECURSIVE ShiftMod(_, _, _)
ShiftMod(x, n, m) == IF n = 0 THEN x % m ELSE ShiftMod((2 * x) % m, n - 1, m)

\* The greatest L with 2^L <= k, for k >= 1.
RECURSIVE FloorLog2(_)
FloorLog2(k) == IF k < 2 THEN 0 ELSE 1 + FloorLog2(k \div 2)

\* The width of the significand of a double.
Mantissa == 53

\* static_cast<uint8_t>(pwm_range * pwm_scale) before the narrowing, for a
\* proper pwm_scale = fl(num/den) and 0 <= pwm_range: the integer part of the
\* double product. The quotient num/den is rounded to a double, the product
\* is rounded again, and the result is cut. When pwm_range * num / den is no
\* integer the two roundings cannot reach the next integer and the result is
\* the floor. When it is an integer k, the result is k unless the quotient
\* was rounded down (remainder r of num * 2^e by den, below half) and the
\* product k - pwm_range * r / (den * 2^e) is nearer to the double below k
\* than to k: then it is k - 1.
double_trunc(pwm_range, scale) ==
    LET a == scale.num
        b == scale.den
        k == (pwm_range * a) \div b
    IN IF (pwm_range * a) % b # 0 \/ k = 0 \/ a = b THEN k
       ELSE LET j == BinadeOf(a, b, 1)
                e == (Mantissa - 1) + j
                x == ShiftMod(a, e, 2 * b)
                odd == x >= b
                r == x % b
                L == FloorLog2(k)
                E == IF L + j - 1 < 10 THEN L + j - 1 ELSE 10
                lhs == IF k = Pow2(L) THEN 2 * pwm_range * r ELSE pwm_range * r
            IN IF r = 0 \/ 2 * r > b \/ (2 * r = b /\ odd) THEN k
               ELSE IF lhs <= b * Pow2(E) THEN k
               ELSE k - 1

\* Mutant of final_pwm_of: the range is taken to be pwm_max.
final_pwm_of_norange(pwm_min, pwm_max, scale) ==
    (pwm_min + (double_trunc(pwm_max, scale) % Uint8Mod)) % Uint8Mod

\* pwm_min_ + static_cast<uint8_t>(pwm_range * pwm_scale), narrowed by set_pwm,
\* for a fan with pwm_min_ < pwm_max_ and a proper pwm_scale
final_pwm_of(pwm_min, pwm_max, scale) ==
    LET pwm_range == pwm_max - pwm_min
        cast == double_trunc(pwm_range, scale) % Uint8Mod
    IN (pwm_min + cast) % Uint8Mod

final_pwm(scale) == final_pwm_of(PwmMin, PwmMax, scale)

\* fan::set_pwm: the duty the file holds afterwards and whether it threw
set_pwm(e, old, value) ==
    IF e.pwm THEN [duty |-> Some(value), err |-> FALSE]
    ELSE [duty |-> old, err |-> TRUE]

\* Mutant of fan_update: a source without a value counts as coefficient 0.
fan_update_default0(f, lv, e, old) ==
    LET ds == drivers_(f)
        values == [i \in 1..Len(ds) |->
                      IF lv[ds[i].src].has THEN get_coeff(ds[i], lv[ds[i].src].val) ELSE Zero]
        w == set_pwm(e, old, final_pwm(max_element(values)))
    IN [attempted |-> TRUE, duty |-> w.duty, err |-> w.err]

\* fan::update: skipped (a source without a value), or the write and its outcome
fan_update(f, lv, e, old) ==
    IF first_missing(f, lv) # 0
    THEN [attempted |-> FALSE, duty |-> old, err |-> FALSE]
    ELSE LET values == coefficients(drivers_(f), lv)
             w == set_pwm(e, old, final_pwm(max_element(values)))
         IN [attempted |-> TRUE, duty |-> w.duty, err |-> w.err]

\* Mutant of fan_reset: an enable file that cannot be opened is an error too.
fan_reset_strict(e, old, enabled) ==
    IF e.enable # "ok"
    THEN [attempted |-> FALSE, duty |-> old, enabled |-> enabled, err |-> TRUE]
    ELSE LET w == set_pwm(e, old, FullSpeed)
         IN [attempted |-> TRUE, duty |-> w.duty, enabled |-> TRUE, err |-> w.err]

\* Mutant of fan_reset: a fan that is in manual mode already is not reset again.
fan_reset_once(e, old, enabled) ==
    IF e.enable = "wfail" \/ enabled
    THEN [attempted |-> FALSE, duty |-> old, enabled |-> enabled, err |-> TRUE]
    ELSE LET w == set_pwm(e, old, FullSpeed)
         IN [attempted |-> TRUE, duty |-> w.duty,
             enabled |-> (enabled \/ e.enable = "ok"), err |-> w.err]

\* Mutant of fan_reset: without an enable file the duty is left as it is.
fan_reset_marker_only(e, old, enabled) ==
    IF e.enable = "wfail"
    THEN [attempted |-> FALSE, duty |-> old, enabled |-> enabled, err |-> TRUE]
    ELSE IF e.enable = "absent"
    THEN [attempted |-> FALSE, duty |-> old, enabled |-> enabled, err |-> FALSE]
    ELSE LET w == set_pwm(e, old, FullSpeed)
         IN [attempted |-> TRUE, duty |-> w.duty, enabled |-> TRUE, err |-> w.err]

\* fan::reset: the enable marker, then set_pwm(255)
fan_reset(e, old, enabled) ==
    IF e.enable = "wfail"
    THEN [attempted |-> FALSE, duty |-> old, enabled |-> enabled, err |-> TRUE]
    ELSE LET w == set_pwm(e, old, FullSpeed)
         IN [attempted |-> TRUE, duty |-> w.duty,
             enabled |-> (enabled \/ e.enable = "ok"), err |-> w.err]

\* ------------------------------------------------------------------ main

\* Mutant of main_catch: the handler ends the process.
main_catch_exit == [pc |-> "done", rv |-> 1]

\* Mutant of main_catch: the handler goes on with the loop.
main_catch_continue == [pc |-> "loop", rv |-> 1]

\* Mutant of main_catch: the handler runs the fan updates again.
main_catch_retry == [pc |-> "fans", rv |-> 1]

\* catch (std::exception const &ex) { ...; rv = 1; } and then line 281
main_catch == [pc |-> "reset2", rv |-> 1]

\* An exception that leaves main(): std::terminate
main_uncaught == [pc |-> "done", term |-> "aborted"]

\* Mutant of nanosleep_interrupted: the sleep is resumed after the handler.
nanosleep_restarted == "sleep"

\* nanosleep when a handler has run: it returns (EINTR) and the loop tests the flag
nanosleep_interrupted == "loop"

\* Mutant of loop_condition: the loop does not test the flag.
loop_condition_forever(flag) == "sources"

\* while (!g_signal_caught): the body, or the statement after the loop
loop_condition(flag) == IF flag THEN "reset2" ELSE "sources"

\* Mutant of after_fan: the wait follows the first fan.
after_fan_first(f) == [pc |-> "sleep", idx |-> 1]

\* for (auto &f : fans) f.update(); then interruptible_sleep(poll_interval)
after_fan(f) ==
    IF f = NumFans THEN [pc |-> "sleep", idx |-> 1] ELSE [pc |-> "fans", idx |-> f + 1]

\* A source that get() has not been called on in the current iteration, and
\* what get() gave when it has been.
NotRead == [done |-> FALSE, got |-> NoValue]
ReadOf(file) ==
    LET g == file_source_get(file)
    IN [done |-> TRUE, got |-> IF g.threw THEN NoValue ELSE Some(g.val)]

\* No fan is under test in main().
NoUnit == [stage |-> "none"]

Init ==
    /\ pc = "reset1"
    /\ idx = 1
    /\ rv = 0
    /\ term = "running"
    /\ g_signal_caught = FALSE
    /\ last_value = [s \in Sources |-> NoValue]
    /\ pwm_file = [f \in Fans |-> NoDuty]
    /\ pwm_enable = [f \in Fans |-> FALSE]
    /\ last_ev = NoEvent
    /\ end_reason = "none"
    /\ sig_at = "none"
    /\ full_wait_after_signal = FALSE
    /\ exit_attempted = {}
    /\ init_done = {}
    /\ reset_env = [f \in Fans |-> NoEnv]
    /\ ever_updated = FALSE
    /\ iter_read = [s \in Sources |-> NotRead]
    /\ unit = NoUnit

\* reset_fans(fans) of line 271: one fan's reset() and what follows it
InitialReset ==
    /\ pc = "reset1"
    /\ \E e \in EnvStates :
       LET f == idx
           r == fan_reset(e, pwm_file[f], pwm_enable[f])
       IN /\ pwm_file' = [pwm_file EXCEPT ![f] = r.duty]
          /\ pwm_enable' = [pwm_enable EXCEPT ![f] = r.enabled]
          /\ last_ev' = Event("reset", f, e, r.attempted, r.err, reset_env[f] = e)
          /\ reset_env' = [reset_env EXCEPT ![f] = IF r.err THEN NoEnv ELSE e]
          /\ IF r.err
             THEN /\ pc' = main_catch.pc
                  /\ rv' = main_catch.rv
                  /\ idx' = 1
                  /\ end_reason' = "reset_failed"
                  /\ init_done' = init_done
             ELSE /\ pc' = IF f = NumFans THEN "loop" ELSE "reset1"
                  /\ idx' = IF f = NumFans THEN 1 ELSE f + 1
                  /\ rv' = rv
                  /\ end_reason' = end_reason
                  /\ init_done' = init_done \cup {f}
    /\ UNCHANGED <<iter_read, unit, term, g_signal_caught, last_value, sig_at,
                   full_wait_after_signal, exit_attempted, ever_updated>>

\* while (!g_signal_caught)
LoopCondition ==
    /\ pc = "loop"
    /\ pc' = loop_condition(g_signal_caught)
    /\ end_reason' = IF pc' = "reset2" THEN "cancelled" ELSE end_reason
    /\ iter_read' = [s \in Sources |-> NotRead]
    /\ idx' = 1
    /\ last_ev' = Event("condition", 0, NoEnv, FALSE, FALSE, FALSE)
    /\ UNCHANGED <<unit, rv, term, g_signal_caught, last_value, pwm_file, pwm_enable,
                   sig_at, full_wait_after_signal, exit_attempted, init_done, reset_env,
                   ever_updated>>

\* s->update(): get() returns the reading or throws, and update() catches it
SourceUpdate ==
    /\ pc = "sources"
    /\ \E file \in FileStates :
          /\ last_value' = [last_value EXCEPT ![idx] = source_update(last_value[idx], file)]
          /\ last_ev' = SourceEvent(idx, file)
          /\ iter_read' = [iter_read EXCEPT ![idx] = ReadOf(file)]
    /\ pc' = IF idx = NumSources THEN "fans" ELSE "sources"
    /\ idx' = IF idx = NumSources THEN 1 ELSE idx + 1
    /\ ever_updated' = TRUE
    /\ UNCHANGED <<unit, rv, term, g_signal_caught, pwm_file, pwm_enable, end_reason,
                   sig_at, full_wait_after_signal, exit_attempted, init_done, reset_env>>

\* f.update() of main_loop; set_pwm_failed leaves the loop for the catch block
FanUpdate ==
    /\ pc = "fans"
    /\ \E writable \in BOOLEAN :
       LET f == idx
           e == [enable |-> "n/a", pwm |-> writable]
           u == fan_update(f, last_value, e, pwm_file[f])
       IN /\ pwm_file' = [pwm_file EXCEPT ![f] = u.duty]
          /\ last_ev' = Event("fan_update", f, e, u.attempted, u.err, FALSE)
          /\ reset_env' = [reset_env EXCEPT ![f] = NoEnv]
          /\ IF u.err
             THEN /\ pc' = main_catch.pc
                  /\ rv' = main_catch.rv
                  /\ idx' = 1
                  /\ end_reason' = "set_pwm_failed"
             ELSE /\ pc' = after_fan(f).pc
                  /\ idx' = after_fan(f).idx
                  /\ rv' = rv
                  /\ end_reason' = end_reason
    /\ ever_updated' = TRUE
    /\ UNCHANGED <<iter_read, unit, term, g_signal_caught, last_value, pwm_enable, sig_at,
                   full_wait_after_signal, exit_attempted, init_done>>

\* interruptible_sleep(poll_interval): nanosleep runs to the end of the interval
SleepTimeout ==
    /\ pc = "sleep"
    /\ pc' = "loop"
    /\ full_wait_after_signal' = (full_wait_after_signal \/ g_signal_caught)
    /\ last_ev' = Event("wait_timeout", 0, NoEnv, FALSE, FALSE, FALSE)
    /\ UNCHANGED <<iter_read, unit, idx, rv, term, g_signal_caught, last_value, pwm_file, pwm_enable,
                   end_reason, sig_at, exit_attempted, init_done, reset_env, ever_updated>>

\* on_signal: sets the flag; a nanosleep in progress returns early
Signal ==
    /\ pc # "done"
    /\ g_signal_caught' = TRUE
    /\ sig_at' = IF sig_at = "none" THEN pc ELSE sig_at
    /\ IF pc = "sleep"
       THEN /\ pc' = nanosleep_interrupted
            /\ last_ev' = Event("wait_interrupted", 0, NoEnv, FALSE, FALSE, FALSE)
       ELSE /\ pc' = pc
            /\ last_ev' = last_ev
    /\ UNCHANGED <<iter_read, unit, idx, rv, term, last_value, pwm_file, pwm_enable, end_reason,
                   full_wait_after_signal, exit_attempted, init_done, reset_env, ever_updated>>

\* reset_fans(fans) of line 281, outside the try block
FinalReset ==
    /\ pc = "reset2"
    /\ \E e \in EnvStates :
       LET f == idx
           r == fan_reset(e, pwm_file[f], pwm_enable[f])
       IN /\ pwm_file' = [pwm_file EXCEPT ![f] = r.duty]
          /\ pwm_enable' = [pwm_enable EXCEPT ![f] = r.enabled]
          /\ last_ev' = Event("reset", f, e, r.attempted, r.err, reset_env[f] = e)
          /\ reset_env' = [reset_env EXCEPT ![f] = IF r.err THEN NoEnv ELSE e]
          /\ exit_attempted' = exit_attempted \cup {f}
          /\ IF r.err
             THEN /\ pc' = main_uncaught.pc
                  /\ term' = main_uncaught.term
                  /\ idx' = idx
             ELSE /\ pc' = IF f = NumFans THEN "done" ELSE "reset2"
                  /\ term' = IF f = NumFans THEN "returned" ELSE term
                  /\ idx' = IF f = NumFans THEN idx ELSE f + 1
    /\ UNCHANGED <<iter_read, unit, rv, g_signal_caught, last_value, end_reason, sig_at,
                   full_wait_after_signal, init_done, ever_updated>>

Next ==
    \/ InitialReset
    \/ LoopCondition
    \/ SourceUpdate
    \/ FanUpdate
    \/ SleepTimeout
    \/ Signal
    \/ FinalReset

Spec == Init /\ [][Next]_vars

\* The steps of the one thread of main(): each is taken once it can be, and
\* nanosleep returns when its interval has passed. Signals owe nothing.
Fairness ==
    /\ WF_vars(InitialReset)
    /\ WF_vars(LoopCondition)
    /\ WF_vars(SourceUpdate)
    /\ WF_vars(FanUpdate)
    /\ WF_vars(SleepTimeout)
    /\ WF_vars(FinalReset)

FairSpec == Spec /\ Fairness

\* ------------------------------------------------------- one fan under test

\* The unit specification builds one fan as main() builds its fan, with the
\* arguments of the constructor and of add_driver drawn from the sets below,
\* gives the sources their values and calls update() once.

mainvars == <<pc, idx, rv, term, g_signal_caught, last_value, pwm_file, pwm_enable,
              last_ev, end_reason, sig_at, full_wait_after_signal, exit_attempted,
              init_done, reset_env, ever_updated, iter_read>>

\* Values of the sources: below, at, between, at and above the thresholds.
UnitReadings == {0, 42000, 44800, 50000, 60000, 67000, 70000, 80000, 90000}

\* Arguments pwm_min and pwm_max of the constructor.
UnitPwm == {0, PwmMin, PwmMax, FullSpeed}

\* Arguments of add_driver beside those of main(): thresholds as far apart as
\* int32_t allows, and equal thresholds.
extreme_driver == [src |-> 1, min |-> IntMin, max |-> IntMax]
degenerate_driver == [src |-> 2, min |-> 50000, max |-> 50000]
DriverChoices == {cpu_driver, hdd_driver, extreme_driver, degenerate_driver}

\* What static_cast<uint8_t> may give for a double it is undefined for: 0 where
\* the conversion yields the integer indefinite, 255 where it saturates, or a
\* byte between them.
UndefinedCasts == {0, 128, 255}

NaN == [num |-> 0, den |-> 0]

UnitFan(stage, pwm_min, pwm_max, acc_fn, ds) ==
    [stage |-> stage, pwm_min |-> pwm_min, pwm_max |-> pwm_max, acc_fn |-> acc_fn,
     drivers |-> ds, skipped |-> FALSE, accum_called |-> FALSE, accum_arg |-> <<>>,
     scale |-> NaN, undefined |-> FALSE, duty |-> NoDuty]

UnitInit ==
    /\ pc = "reset1"
    /\ idx = 1
    /\ rv = 0
    /\ term = "running"
    /\ g_signal_caught = FALSE
    /\ last_value \in [Sources -> {Some(v) : v \in UnitReadings} \cup {NoValue}]
    /\ pwm_file = [f \in Fans |-> NoDuty]
    /\ pwm_enable = [f \in Fans |-> FALSE]
    /\ last_ev = NoEvent
    /\ end_reason = "none"
    /\ sig_at = "none"
    /\ full_wait_after_signal = FALSE
    /\ exit_attempted = {}
    /\ init_done = {}
    /\ reset_env = [f \in Fans |-> NoEnv]
    /\ ever_updated = FALSE
    /\ iter_read = [s \in Sources |-> NotRead]
    /\ \E pwm_min \in UnitPwm, pwm_max \in UnitPwm, acc_fn \in BOOLEAN :
          unit = UnitFan("new", pwm_min, pwm_max, acc_fn, <<>>)

\* fan::fan: assert(pwm_max > pwm_min); assert(acc_fn);
fan_ctor(pwm_min, pwm_max, acc_fn) ==
    IF pwm_max > pwm_min /\ acc_fn THEN "built" ELSE "aborted"

UnitConstruct ==
    /\ unit.stage = "new"
    /\ unit' = [unit EXCEPT !.stage = fan_ctor(unit.pwm_min, unit.pwm_max, unit.acc_fn)]
    /\ UNCHANGED mainvars

\* fan::add_driver: drivers_.emplace_back(&src, min, max), nothing is checked
add_driver(ds, d) == Append(ds, d)

UnitAddDriver ==
    /\ unit.stage = "built"
    /\ \E d \in DriverChoices :
          /\ \A i \in 1..Len(unit.drivers) : unit.drivers[i].src # d.src
          /\ unit' = [unit EXCEPT !.drivers = add_driver(unit.drivers, d)]
    /\ UNCHANGED mainvars

\* fan::update of the fan under test. The accumulation over no coefficient
\* dereferences end(), a subtraction that overflows and the cast of a double
\* that is a NaN or outside uint8_t are undefined: the cast is then any of
\* UndefinedCasts.
UnitUpdate ==
    /\ unit.stage = "built"
    /\ LET ds == unit.drivers
           values == coefficients(ds, last_value)
           defined == /\ values # <<>>
                      /\ \A i \in 1..Len(ds) :
                            /\ ~CoeffOverflows(ds[i], last_value[ds[i].src].val)
                            /\ Proper(values[i])
       IN IF first_missing_of(ds, last_value) # 0
          THEN unit' = [unit EXCEPT !.stage = "updated", !.skipped = TRUE]
          ELSE IF defined
               THEN LET scale == max_element(values)
                        w == set_pwm([enable |-> "n/a", pwm |-> TRUE], unit.duty,
                                     final_pwm_of(unit.pwm_min, unit.pwm_max, scale))
                    IN unit' = [unit EXCEPT !.stage = "updated", !.accum_called = TRUE,
                                            !.accum_arg = values, !.scale = scale,
                                            !.duty = w.duty]
               ELSE \E cast \in UndefinedCasts :
                       unit' = [unit EXCEPT !.stage = "updated", !.accum_called = TRUE,
                                            !.accum_arg = values, !.undefined = TRUE,
                                            !.duty = Some((unit.pwm_min + cast) % Uint8Mod)]
    /\ UNCHANGED mainvars

UnitNext ==
    \/ UnitConstruct
    \/ UnitAddDriver
    \/ UnitUpdate

UnitSpec == UnitInit /\ [][UnitNext]_vars

\* ------------------------------------------------------------------ claims

HasMissing(f) ==
    \E i \in 1..Len(drivers_(f)) : ~last_value[drivers_(f)[i].src].has

ZeroStatus == term = "returned" /\ rv = 0
NonZeroStatus == term = "aborted" \/ (term = "returned" /\ rv # 0)

\* C1: when fan::update is called on a fan one of whose sources has no value,
\* it writes nothing to the pwm file, throws nothing (control goes on to the
\* next fan or to the sleep, rv stays as it was) and the duty last written to
\* the fan is the same after the call as before it.
C1_MissingValueSkipsUpdate ==
    [][(pc = "fans" /\ HasMissing(idx) /\ FanUpdate)
          => /\ pwm_file' = pwm_file
             /\ ~last_ev'.attempted
             /\ ~last_ev'.err
             /\ rv' = rv
             /\ end_reason' = end_reason
             /\ pc' \in {"fans", "sleep"}]_vars

\* C1 witness: fan 1 skipped an update with its first source at 70000 and its
\* second source without a value, and its duty is still the 255 of the reset.
C1_Witness ==
    /\ last_ev.op = "fan_update" /\ last_ev.id = 1 /\ ~last_ev.attempted
    /\ last_value[1] = Some(70000) /\ ~last_value[2].has
    /\ pwm_file[1] = Some(FullSpeed)

\* C2: whenever the process has terminated, the final reset pass was started
\* before, whether the loop ended by the signal, by a set_pwm failure of a
\* fan::update or by a failure of the initial reset pass.
C2_ExitPassAlwaysStarted ==
    pc = "done" =>
        /\ end_reason \in {"cancelled", "set_pwm_failed", "reset_failed"}
        /\ exit_attempted # {}

\* C2 witness: the process ended after a failed initial reset pass.
C2_Witness == pc = "done" /\ end_reason = "reset_failed" /\ exit_attempted # {}

\* C3: when the process has terminated, reset() has been called on every fan
\* by the final reset pass.
C3_ExitPassResetsEveryFan == pc = "done" => exit_attempted = Fans

\* C4: the exit status is zero when the loop ended by the signal and non-zero
\* when the run ended by a fatal error, also when the final reset pass fails.
C4_ExitStatusReflectsReason ==
    pc = "done" =>
        /\ end_reason = "cancelled" => ZeroStatus
        /\ end_reason \in {"set_pwm_failed", "reset_failed"} => NonZeroStatus

\* C5: when the first signal arrives during the sleep, the sleep returns
\* without running to its timeout, the loop condition sees the flag and control
\* goes to the final reset pass: no source or fan update and no sleep follows.
C5_SignalDuringSleepEndsLoop ==
    sig_at = "sleep" =>
        /\ g_signal_caught
        /\ pc \in {"loop", "reset2", "done"}
        /\ ~full_wait_after_signal
        /\ last_ev.op \in {"wait_interrupted", "condition", "reset"}
        /\ pc # "loop" => end_reason = "cancelled"

\* C5 witness: the signal came during the sleep and the final pass is running.
C5_Witness == sig_at = "sleep" /\ pc = "reset2" /\ last_ev.op = "condition"

\* C6: once the flag is set, no sleep runs to its full timeout.
C6_NoFullWaitAfterSignal == ~full_wait_after_signal

\* C7: no source or fan is updated and the loop is not entered before reset()
\* has succeeded on every fan; when the initial pass fails no update is ever
\* made, control goes to the final reset pass and the process ends non-zero.
C7_InitialResetPrecedesControl ==
    /\ (pc \in {"loop", "sources", "fans", "sleep"} \/ ever_updated) => init_done = Fans
    /\ end_reason = "reset_failed" =>
          /\ ~ever_updated
          /\ init_done # Fans
          /\ pc \in {"reset2", "done"}
          /\ pc = "done" => (exit_attempted # {} /\ NonZeroStatus)

\* C7 witness: the initial reset of the second fan failed, the final pass was
\* completed and main returned.
C7_Witness ==
    /\ pc = "done" /\ end_reason = "reset_failed" /\ init_done = {1}
    /\ term = "returned" /\ exit_attempted = Fans

\* C8: after a set_pwm failure in fan::update no fan update, source update or
\* sleep follows: the only operations after it are the resets of the final
\* pass, and the process ends with a non-zero status.
C8_WriteFailureIsFatal ==
    end_reason = "set_pwm_failed" =>
        /\ pc \in {"reset2", "done"}
        /\ \/ last_ev.op = "fan_update" /\ last_ev.err /\ exit_attempted = {}
           \/ last_ev.op = "reset" /\ last_ev.id \in exit_attempted
        /\ pc = "done" => NonZeroStatus

\* C8 witness: the update of the first fan failed, with a fan still to update.
C8_Witness ==
    /\ end_reason = "set_pwm_failed" /\ pc = "reset2"
    /\ last_ev.op = "fan_update" /\ last_ev.id = 1 /\ last_ev.err /\ NumFans > 1

\* C9: a reset() that cannot open the enable file still writes 255 and throws
\* nothing when that write succeeds; it throws when the enable file opens and
\* the write of "1" fails; it throws when the write of 255 fails.
C9_ResetOutcomes ==
    last_ev.op = "reset" =>
        /\ last_ev.env.enable = "absent" =>
              /\ last_ev.attempted
              /\ last_ev.env.pwm =>
                    (~last_ev.err /\ pwm_file[last_ev.id] = Some(FullSpeed))
        /\ last_ev.env.enable = "wfail" => last_ev.err
        /\ (last_ev.attempted /\ ~last_ev.env.pwm) => last_ev.err

\* C9 witness: a reset() without an enable file succeeded and the duty is 255.
C9_Witness ==
    /\ last_ev.op = "reset" /\ last_ev.env.enable = "absent" /\ ~last_ev.err
    /\ pwm_file[last_ev.id] = Some(FullSpeed)

\* C10: a reset() that directly follows a successful reset() of the same fan
\* in the same environment succeeds too, and the duty is 255 after the first
\* and after the second.
C10_ResetIdempotent ==
    /\ \A f \in Fans : reset_env[f] # NoEnv => pwm_file[f] = Some(FullSpeed)
    /\ (last_ev.op = "reset" /\ last_ev.consecutive) =>
          /\ ~last_ev.err
          /\ reset_env[last_ev.id] = last_ev.env
          /\ pwm_file[last_ev.id] = Some(FullSpeed)

\* C10 witness: a second consecutive reset() with the enable file present.
C10_Witness ==
    /\ last_ev.op = "reset" /\ last_ev.consecutive /\ ~last_ev.err
    /\ last_ev.env.enable = "ok" /\ pwm_enable[last_ev.id]

\* The file of a reading r as the kernel presents it.
GoodFile(r) == File(TRUE, Decimal(r) \o <<"\n">>)

\* C11: after every source::update the source holds exactly the number its
\* file held in that call, or no value when the file could not be read or
\* parsed, whatever it held before; and the update throws nothing: control
\* goes on to the next source or to the fans.
C11_UpdateStoresOrClears ==
    last_ev.op = "source_update" =>
        /\ \/ \E r \in Readings :
                 /\ last_ev.file = GoodFile(r)
                 /\ last_value[last_ev.id] = Some(r)
           \/ /\ last_ev.file \notin {GoodFile(r) : r \in Readings}
              /\ file_source_get(last_ev.file).threw
              /\ last_value[last_ev.id] = NoValue
        /\ pc \in {"sources", "fans"}
        /\ end_reason = "none"
        /\ rv = 0

\* C11 witness: the first source held a value in an earlier iteration (fan 1
\* was set to 150 from it) and its read has just failed on malformed text.
C11_Witness ==
    /\ last_ev.op = "source_update" /\ last_ev.id = 1
    /\ last_ev.file = File(TRUE, <<"x", "7", "0">>)
    /\ last_value[1] = NoValue
    /\ pwm_file[1] = Some(150)

\* C12: for every driver with min < max and every value its source holds, the
\* coefficient is 0 when value <= min, 1 when value >= max and
\* (value - min) / (max - min) between them, where it lies strictly between
\* 0 and 1 and does not decrease as the value grows; it is always in [0, 1].
C12_CoefficientClamped ==
    (unit.stage = "updated" /\ ~unit.skipped) =>
        \A i \in 1..Len(unit.drivers) :
            LET d == unit.drivers[i]
                lv == last_value[d.src]
                c == get_coeff(d, lv.val)
            IN (d.min < d.max /\ lv.has) =>
                  /\ Proper(c)
                  /\ lv.val <= d.min => c.num = 0
                  /\ lv.val >= d.max => c.num = c.den
                  /\ (d.min < lv.val /\ lv.val < d.max) =>
                        /\ 0 < c.num /\ c.num < c.den
                        /\ c.num * (d.max - d.min) = (lv.val - d.min) * c.den
                  /\ \A v \in UnitReadings :
                        /\ Proper(get_coeff(d, v))
                        /\ v <= lv.val => ~Less(c, get_coeff(d, v))

\* C13: every duty that update() writes lies in [pwm_min, pwm_max]; it is
\* pwm_min when the scale is 0 and pwm_max when the scale is 1; for no scale
\* in [0, 1] does the 8-bit sum wrap.
C13_DutyWithinRange ==
    (unit.stage = "updated" /\ unit.accum_called) =>
        /\ unit.duty.has
        /\ unit.pwm_min <= unit.duty.val /\ unit.duty.val <= unit.pwm_max
        /\ Proper(unit.scale) =>
              /\ unit.scale.num = 0 => unit.duty.val = unit.pwm_min
              /\ unit.scale.num = unit.scale.den => unit.duty.val = unit.pwm_max
              /\ unit.duty.val =
                    unit.pwm_min + double_trunc(unit.pwm_max - unit.pwm_min, unit.scale)

C15_InvariantsCheckedAtConstruction ==
    /\ unit.stage \in {"built", "updated"} =>
          /\ unit.pwm_max > unit.pwm_min
          /\ unit.acc_fn
          /\ \A i \in 1..Len(unit.drivers) : unit.drivers[i].min < unit.drivers[i].max
    /\ (unit.stage = "updated" /\ unit.accum_called) =>
          \A i \in 1..Len(unit.drivers) : unit.drivers[i].max # unit.drivers[i].min

\* C20: whenever update() invokes the accumulation function, the sequence it
\* passes holds exactly one coefficient for each attached driver, in the order
\* of attachment, and is not empty; a fan without driver never reaches the
\* accumulation.
C20_AccumulationOverEveryDriver ==
    unit.accum_called =>
        /\ Len(unit.accum_arg) = Len(unit.drivers)
        /\ \A i \in 1..Len(unit.drivers) :
              unit.accum_arg[i] =
                  get_coeff(unit.drivers[i], last_value[unit.drivers[i].src].val)
        /\ Len(unit.accum_arg) >= 1
        /\ unit.drivers # <<>>

\* C16: the flag is never cleared once set; once the loop condition has seen
\* the flag set, no further iteration starts; and under fair scheduling a set
\* flag leads to the exit reset pass and to the end of the process.
C16_FlagLeadsToExit ==
    /\ [][g_signal_caught => g_signal_caught']_vars
    /\ [][(last_ev'.op = "condition" /\ last_ev' # last_ev /\ g_signal_caught)
             => pc' = "reset2"]_vars
    /\ [](end_reason = "cancelled" => pc \in {"reset2", "done"})
    /\ g_signal_caught ~> (pc = "done" /\ exit_attempted # {})

\* The loop was left because of the flag, the exit pass ran and main returned.
C16_Witness ==
    /\ g_signal_caught /\ end_reason = "cancelled"
    /\ pc = "done" /\ term = "returned" /\ exit_attempted = Fans

\* C17: in each iteration every source is updated before any fan is, the fans
\* are updated in their fixed order, and the wait begins only after the last
\* fan's update; a fan that skips its update does not keep the later fans
\* from theirs.
C17_IterationOrder ==
    [][ /\ (pc' = "sources" /\ pc # "sources") => (pc = "loop" /\ idx' = 1)
        /\ (pc = "sources" /\ pc' = "sources" /\ idx' # idx) =>
              (idx' = idx + 1 /\ last_ev'.op = "source_update" /\ last_ev'.id = idx)
        /\ (pc' = "fans" /\ pc # "fans") =>
              /\ pc = "sources" /\ idx = NumSources /\ idx' = 1
              /\ \A s \in Sources : iter_read'[s].done
        /\ (pc = "fans" /\ pc' = "fans" /\ idx' # idx) =>
              (idx' = idx + 1 /\ last_ev'.op = "fan_update" /\ last_ev'.id = idx)
        /\ (pc' = "sleep" /\ pc # "sleep") =>
              /\ pc = "fans" /\ idx = NumFans
              /\ last_ev'.op = "fan_update" /\ last_ev'.id = NumFans
        /\ (pc = "fans" /\ pc' # "fans" /\ ~last_ev'.attempted) => pc' = "sleep"
      ]_vars

\* Fan 1 skipped its update for want of a value and fan 2 was updated after it.
C17_Witness ==
    /\ last_ev.op = "fan_update" /\ last_ev.id = 2 /\ last_ev.attempted
    /\ ~last_value[1].has
    /\ pwm_file[1] = Some(FullSpeed)
    /\ pwm_file[2] = Some(PwmMax)

\* C18: no fan is driven from a reading of an earlier iteration: when a
\* source's read failed in an iteration, update() writes no duty to the fans
\* bound to it in that iteration, and every duty update() writes is a function
\* of the values read in the same iteration only.
C18_DutyFromThisIteration ==
    last_ev.op = "fan_update" =>
        LET ds == drivers_(last_ev.id)
            read == [s \in Sources |-> iter_read[s].got]
        IN /\ \A i \in 1..Len(ds) : iter_read[ds[i].src].done
           /\ first_missing_of(ds, read) # 0 => ~last_ev.attempted
           /\ (last_ev.attempted /\ ~last_ev.err) =>
                 /\ first_missing_of(ds, read) = 0
                 /\ pwm_file[last_ev.id] =
                       Some(final_pwm(max_element(coefficients(ds, read))))

\* Fan 1 was written 150 from the 70000 and the 40000 read in this iteration.
C18_Witness ==
    /\ last_ev.op = "fan_update" /\ last_ev.id = 1
    /\ last_ev.attempted /\ ~last_ev.err
    /\ iter_read[1].got = Some(70000) /\ iter_read[2].got = Some(40000)
    /\ pwm_file[1] = Some(150)

\* C19: whenever main() returns, with status 0 or 1, the last value written
\* to every fan is 255, and no update() writes to a fan after the exit pass
\* has begun.
C19_ReturnLeavesFullSpeed ==
    /\ [](term = "returned" =>
             /\ exit_attempted = Fans
             /\ \A f \in Fans : pwm_file[f] = Some(FullSpeed))
    /\ [][(pc = "reset2" \/ pc = "done") =>
             (/\ pc' \in {"reset2", "done"}
              /\ \A f \in Fans : pwm_file'[f] \in {pwm_file[f], Some(FullSpeed)})
        ]_vars

\* main() returned 1 after a failed duty write, every fan at 255.
C19_Witness ==
    /\ term = "returned" /\ rv = 1 /\ end_reason = "set_pwm_failed"
    /\ exit_attempted = Fans
    /\ \A f \in Fans : pwm_file[f] = Some(FullSpeed)

====
